---- MODULE Spec2Model ----
(***************************************************************************)
(* Music_Vis: the analysis thread of AudioAnalyzer::start_audio_processing *)
(* (src/src/main.rs 59-109) and the render loop of main / Visualizer::     *)
(* render (src/src/main.rs 255-260, 375-388), which share four             *)
(* Arc<Mutex<..>> fields: spectrum, bass_energy, mid_energy, high_energy.  *)
(*                                                                         *)
(* Spec and FairSpec are the two threads over a scaled-down window: there  *)
(* a published field value is identified by the analysis pass that         *)
(* produced it and the cursor offset of its window.                        *)
(* AnalyzerSpec is one pass of the per-bin loops (main.rs 76-100) at the   *)
(* source's transform size, over the bin magnitudes the transform left in  *)
(* the buffer; the transform itself (rustfft) is not computed.             *)
(***************************************************************************)
EXTENDS Integers, Sequences, FiniteSets, TLC

\* Transform size. 2048 in main.rs:16; the model runs a scaled-down window.
FFT_SIZE == 4
\* Longest decoded sample buffer the model starts from.
MaxLen == 5
\* Analysis passes are numbered 1, 2, ...; numbers above MaxPass are recorded
\* as MaxPass (the loop itself is not bounded).
MaxPass == 3

\* main.rs:102  pos += FFT_SIZE / 2   (usize division)
Hop == FFT_SIZE \div 2

Threads == {"analysis", "render"}
Fields == {"spectrum", "bass", "mid", "high"}
\* main.rs:97-100: the order in which the analysis thread writes the fields
WriterOrder == <<"spectrum", "bass", "mid", "high">>
\* main.rs:258-260: the order in which render reads them (never the spectrum)
ReaderOrder == <<"bass", "mid", "high">>

VARIABLES
    samples,    \* Vec<f32> decoded once (main.rs:50), moved into the thread
    pos,        \* let mut pos (main.rs:63)
    buffer,     \* the reused FFT buffer (main.rs:62), indices 0..FFT_SIZE-1
    frame,      \* spectrum_data / *_sum of the pass being published
    wpc,        \* position of the analysis thread in its loop
    wfield,     \* index in WriterOrder of the field being written, 0 if none
    pass,       \* number of the current analysis pass (history)
    held,       \* per field: the threads holding its MutexGuard
    poisoned,   \* per field: the Mutex poison flag
    shared,     \* per field: the value inside the Mutex
    lastWrite,  \* per field: the last value a completed write stored (history)
    rpc,        \* position of the render thread
    rfield,     \* index in ReaderOrder of the field being read, 0 if none
    snap,       \* render's locals bass, mid, high: the last value read of each
    trav,       \* history: advances and wraps of the current buffer traversal
    an          \* the locals of the per-bin loops of one pass (main.rs:76-100)

vars == <<samples, pos, buffer, frame, wpc, wfield, pass, held, poisoned,
          shared, lastWrite, rpc, rfield, snap, trav, an>>

----------------------------------------------------------------------------
(* Pure helpers *)

Len0 == Len(samples)

\* main.rs:50: the decoded buffers the model starts from: every length up to
\* MaxLen, the empty buffer included. The k-th sample holds k: non-zero, so
\* that zero padding shows, and different from every other sample, so that
\* the index a value was read from shows.
SampleBuffers == {[k \in 1..L |-> k] : L \in 0..MaxLen}

\* main.rs:31-34: every field starts as zero; pass 0 stands for "constructor"
InitialField == [pass |-> 0, pos |-> 0]

NextPass(k) == IF k < MaxPass THEN k + 1 ELSE k

\* main.rs:74: after fft.process the buffer holds transform bins, not samples.
\* A bin is represented by a negative tag, distinct from every sample and 0.
TransformOutput(i) == -(i + 1)

\* variant of InBounds: the comparison off by one (<=)
InBoundsOffByOne(k) == k <= Len0
\* main.rs:67  if pos + i < samples.len()
InBounds(k) == k < Len0

\* main.rs:68  samples[pos + i]  (0-based in the source)
SampleAt(k) == samples[k + 1]

\* variant of FillSlot: no else branch, the slot keeps what it held
FillSlotKeep(buf, i) ==
    IF InBounds(pos + i) THEN SampleAt(pos + i) ELSE buf[i]
\* main.rs:67-71: the value stored in slot i of the buffer
FillSlot(buf, i) ==
    IF InBounds(pos + i) THEN SampleAt(pos + i) ELSE 0

\* main.rs:66-72: for i in 0..FFT_SIZE { buffer[i] = ... }
RECURSIVE FillFrom(_, _)
FillFrom(buf, i) ==
    IF i >= FFT_SIZE THEN buf
    ELSE FillFrom([buf EXCEPT ![i] = FillSlot(buf, i)], i + 1)

\* main.rs:68: an index the loop reads that is outside 0..len-1 panics
FillPanics ==
    \E i \in 0..(FFT_SIZE - 1) :
        InBounds(pos + i) /\ ~(pos + i \in 0..(Len0 - 1))

\* variant of AdvancePos: the comparison strict (pos > samples.len())
AdvancePosStrict(p, len) == IF p + Hop > len THEN 0 ELSE p + Hop
\* variant of AdvancePos: wrap modulo the length instead of the reset to 0
AdvancePosModulo(p, len) ==
    IF p + Hop >= len THEN (IF len = 0 THEN 0 ELSE (p + Hop) % len)
    ELSE p + Hop
\* main.rs:102-105: pos += FFT_SIZE / 2; if pos >= samples.len() { pos = 0 }
AdvancePos(p, len) == IF p + Hop >= len THEN 0 ELSE p + Hop

\* variant of CanLock: no mutual exclusion
CanLockAlways(f) == TRUE
\* Mutex::lock blocks while another guard of the same Mutex is alive
CanLock(f) == held[f] = {}

Acquire(h, t, f) == [h EXCEPT ![f] = @ \cup {t}]

\* variant of Release: the guard outlives the statement
ReleaseNever(h, t, f) == h
\* the temporary MutexGuard is dropped at the end of the statement
Release(h, t, f) == [h EXCEPT ![f] = @ \ {t}]

\* variant of Publish: the whole frame is stored at once
PublishAll(sh, f, v) == [g \in Fields |-> v]
\* main.rs:97-100: one statement stores one field
Publish(sh, f, v) == [sh EXCEPT ![f] = v]

\* variant of ReadField: every local is copied from bass_energy
ReadFieldBass(sh, f) == sh["bass"]
\* main.rs:258-260: each local is copied from its own field
ReadField(sh, f) == sh[f]

\* variant of WriterFieldAfter: the write of mid is left out
WriterFieldAfterSkipMid(i) ==
    IF i = 2 THEN 4 ELSE IF i < Len(WriterOrder) THEN i + 1 ELSE 0
\* main.rs:97-100: the field written after the one at index i (0: none left)
WriterFieldAfter(i) == IF i < Len(WriterOrder) THEN i + 1 ELSE 0

GuardsOf(t) == {f \in Fields : t \in held[f]}

\* a panic unwinds: every guard the thread holds is dropped and poisons its Mutex
PoisonBy(t) == [f \in Fields |-> poisoned[f] \/ t \in held[f]]
DropAll(t) == [f \in Fields |-> held[f] \ {t}]

----------------------------------------------------------------------------
(* Initial state: main.rs:29-37 (AudioAnalyzer::new) and 59-63 *)

\* the per-bin loops are not stepped through by the thread model
AnalyzerIdle == [stage |-> "idle"]

ThreadsInit ==
    /\ samples \in SampleBuffers
    /\ pos = 0
    /\ buffer = [i \in 0..(FFT_SIZE - 1) |-> 0]
    /\ frame = InitialField
    /\ wpc = "fill"
    /\ wfield = 0
    /\ pass = 0
    /\ held = [f \in Fields |-> {}]
    /\ poisoned = [f \in Fields |-> FALSE]
    /\ shared = [f \in Fields |-> InitialField]
    /\ lastWrite = [f \in Fields |-> InitialField]
    /\ rpc = "idle"
    /\ rfield = 0
    /\ snap = [f \in {"bass", "mid", "high"} |-> InitialField]
    /\ trav = [advances |-> 0, wraps |-> 0]

Init ==
    /\ ThreadsInit
    /\ an = AnalyzerIdle

----------------------------------------------------------------------------
(* The analysis thread: main.rs:65-108 *)

\* main.rs:66-72
FillWindow ==
    /\ wpc = "fill"
    /\ IF FillPanics
       THEN /\ wpc' = "panicked"
            /\ poisoned' = PoisonBy("analysis")
            /\ held' = DropAll("analysis")
            /\ UNCHANGED buffer
       ELSE /\ wpc' = "fft"
            /\ buffer' = FillFrom(buffer, 0)
            /\ UNCHANGED <<poisoned, held>>
    /\ UNCHANGED <<an, samples, pos, frame, wfield, pass, shared, lastWrite,
                   rpc, rfield, snap, trav>>

\* main.rs:74-95: fft.process, spectrum_data, bass_sum / mid_sum / high_sum
Analyse ==
    /\ wpc = "fft"
    /\ buffer' = [i \in 0..(FFT_SIZE - 1) |-> TransformOutput(i)]
    /\ pass' = NextPass(pass)
    /\ frame' = [pass |-> NextPass(pass), pos |-> pos]
    /\ wpc' = "lock"
    /\ wfield' = 1
    /\ UNCHANGED <<an, samples, pos, held, poisoned, shared, lastWrite,
                   rpc, rfield, snap, trav>>

\* main.rs:97-100: <field>.lock().unwrap()
WriterLock ==
    /\ wpc = "lock"
    /\ CanLock(WriterOrder[wfield])
    /\ IF poisoned[WriterOrder[wfield]]
       THEN /\ wpc' = "panicked"
            /\ UNCHANGED held
       ELSE /\ wpc' = "write"
            /\ held' = Acquire(held, "analysis", WriterOrder[wfield])
    /\ UNCHANGED <<an, samples, pos, buffer, frame, wfield, pass, poisoned,
                   shared, lastWrite, rpc, rfield, snap, trav>>

\* main.rs:97-100: *guard = value; the guard is dropped with the statement
WriterWrite ==
    /\ wpc = "write"
    /\ shared' = Publish(shared, WriterOrder[wfield], frame)
    /\ lastWrite' = [lastWrite EXCEPT ![WriterOrder[wfield]] = frame]
    /\ held' = Release(held, "analysis", WriterOrder[wfield])
    /\ wfield' = WriterFieldAfter(wfield)
    /\ wpc' = IF WriterFieldAfter(wfield) = 0 THEN "advance" ELSE "lock"
    /\ UNCHANGED <<an, samples, pos, buffer, frame, pass, poisoned,
                   rpc, rfield, snap, trav>>

\* main.rs:102-105
Advance ==
    /\ wpc = "advance"
    /\ pos' = AdvancePos(pos, Len0)
    /\ trav' = LET n == IF trav.wraps = 1 THEN 1 ELSE trav.advances + 1
               IN [advances |-> n,
                   wraps |-> IF pos' # pos + Hop THEN 1 ELSE 0]
    /\ wpc' = "sleep"
    /\ UNCHANGED <<an, samples, buffer, frame, wfield, pass, held, poisoned,
                   shared, lastWrite, rpc, rfield, snap>>

\* main.rs:107: thread::sleep(16 ms), then the next iteration of the loop
Sleep ==
    /\ wpc = "sleep"
    /\ wpc' = "fill"
    /\ UNCHANGED <<an, samples, pos, buffer, frame, wfield, pass, held, poisoned,
                   shared, lastWrite, rpc, rfield, snap, trav>>

Writer == FillWindow \/ Analyse \/ WriterLock \/ WriterWrite \/ Advance \/ Sleep

----------------------------------------------------------------------------
(* The render thread: main.rs:375-388 calling Visualizer::render 255-332 *)

\* main.rs:386, 256: render() is entered
RenderStart ==
    /\ rpc = "idle"
    /\ rpc' = "lock"
    /\ rfield' = 1
    /\ UNCHANGED <<an, samples, pos, buffer, frame, wpc, wfield, pass, held,
                   poisoned, shared, lastWrite, snap, trav>>

\* main.rs:258-260: <field>.lock().unwrap()
ReaderLock ==
    /\ rpc = "lock"
    /\ CanLock(ReaderOrder[rfield])
    /\ IF poisoned[ReaderOrder[rfield]]
       THEN /\ rpc' = "panicked"
            /\ UNCHANGED held
       ELSE /\ rpc' = "read"
            /\ held' = Acquire(held, "render", ReaderOrder[rfield])
    /\ UNCHANGED <<an, samples, pos, buffer, frame, wpc, wfield, pass, poisoned,
                   shared, lastWrite, rfield, snap, trav>>

\* main.rs:258-260: let x = *guard; the guard is dropped with the statement
ReaderRead ==
    /\ rpc = "read"
    /\ snap' = [snap EXCEPT ![ReaderOrder[rfield]] =
                    ReadField(shared, ReaderOrder[rfield])]
    /\ held' = Release(held, "render", ReaderOrder[rfield])
    /\ IF rfield < Len(ReaderOrder)
       THEN /\ rfield' = rfield + 1
            /\ rpc' = "lock"
       ELSE /\ rfield' = 0
            /\ rpc' = "draw"
    /\ UNCHANGED <<an, samples, pos, buffer, frame, wpc, wfield, pass, poisoned,
                   shared, lastWrite, trav>>

\* main.rs:262-331, 387: the GL calls and swap_buffers; no shared field is touched
Draw ==
    /\ rpc = "draw"
    /\ rpc' = "idle"
    /\ UNCHANGED <<an, samples, pos, buffer, frame, wpc, wfield, pass, held,
                   poisoned, shared, lastWrite, rfield, snap, trav>>

Reader == RenderStart \/ ReaderLock \/ ReaderRead \/ Draw

----------------------------------------------------------------------------

Next ==
    \/ FillWindow
    \/ Analyse
    \/ WriterLock
    \/ WriterWrite
    \/ Advance
    \/ Sleep
    \/ RenderStart
    \/ ReaderLock
    \/ ReaderRead
    \/ Draw

Spec == Init /\ [][Next]_vars

\* Both threads are scheduled for as long as the process runs. No guard is
\* held across the 16 ms sleep (main.rs:107) or across the drawing of a frame
\* (main.rs:262-331, 387), so a thread that waits in Mutex::lock finds the
\* Mutex free for whole periods and gets it: lock attempts are strongly fair.
FairSpec ==
    /\ Spec
    /\ WF_vars(Writer) /\ SF_vars(WriterLock)
    /\ WF_vars(Reader) /\ SF_vars(ReaderLock)

----------------------------------------------------------------------------
(* One pass of the per-bin loops, main.rs:76-100, at the source's sizes.   *)
(* f32 values are extended rationals: a finite value num / den (den > 0),  *)
(* or -inf, +inf, NaN as IEEE 754 produces them; rounding is left out.     *)

\* main.rs:16  const FFT_SIZE: usize = 2048  (FFT_SIZE above is the scaled
\* window of the thread model; the per-bin loops run at the source's size)
TransformSize == 2048
\* main.rs:15
SAMPLE_RATE == 44100
\* main.rs:17
MIN_DB == -60
\* main.rs:18
MAX_DB == 0

\* main.rs:76-77  FFT_SIZE / 2
NumBins == TransformSize \div 2

Bands == {"bass", "mid", "high"}

Fin(n, d) == [cls |-> "fin", num |-> n, den |-> d]
NegInf == [cls |-> "ninf", num |-> 0, den |-> 1]
PosInf == [cls |-> "pinf", num |-> 0, den |-> 1]
NaN == [cls |-> "nan", num |-> 0, den |-> 1]

IsFinite(a) == a.cls = "fin"
IsZero(a) == a.cls = "fin" /\ a.num = 0
\* f32 == : equal values, whatever the representation; NaN equals nothing
FEq(a, b) ==
    /\ a.cls = b.cls
    /\ a.cls # "nan"
    /\ a.cls = "fin" => a.num * b.den = b.num * a.den
Sign(a) ==
    CASE a.cls = "ninf" -> -1
      [] a.cls = "pinf" -> 1
      [] a.cls = "fin" -> (IF a.num > 0 THEN 1 ELSE IF a.num < 0 THEN -1 ELSE 0)
      [] OTHER -> 0

\* f32 addition (main.rs:79 with the sign turned, 89, 91, 93)
FAdd(a, b) ==
    CASE a.cls = "nan" \/ b.cls = "nan" -> NaN
      [] a.cls = "ninf" -> (IF b.cls = "pinf" THEN NaN ELSE NegInf)
      [] a.cls = "pinf" -> (IF b.cls = "ninf" THEN NaN ELSE PosInf)
      [] b.cls = "ninf" -> NegInf
      [] b.cls = "pinf" -> PosInf
      [] OTHER -> IF a.den = b.den
                  THEN Fin(a.num + b.num, a.den)
                  ELSE Fin(a.num * b.den + b.num * a.den, a.den * b.den)

\* f32 division by a non-zero constant d (main.rs:79, 98-100)
FDivInt(a, d) ==
    CASE a.cls = "nan" -> NaN
      [] a.cls = "ninf" -> (IF d > 0 THEN NegInf ELSE PosInf)
      [] a.cls = "pinf" -> (IF d > 0 THEN PosInf ELSE NegInf)
      [] OTHER -> IF d > 0 THEN Fin(a.num, a.den * d)
                  ELSE Fin(-a.num, a.den * (-d))

\* What the transform left in the buffer, given by the value of
\* buffer[i].norm() / FFT_SIZE (main.rs:78) for each bin i: exactly 0 for
\* every bin of an all-zero window (the transform is linear), else a power
\* of ten 10^exp, so that the logarithm is exact.
Profiles ==
    {[kind |-> "silent", exp |-> 0, bin |-> 0]}
    \cup {[kind |-> "flat", exp |-> e, bin |-> 0] : e \in {-6, -2}}
    \cup {[kind |-> "tone", exp |-> -1, bin |-> b] : b \in {5, 50, 500}}

Magnitude(p, i) ==
    CASE p.kind = "silent" -> [zero |-> TRUE, exp |-> 0]
      [] p.kind = "flat" -> [zero |-> FALSE, exp |-> p.exp]
      [] OTHER -> [zero |-> FALSE, exp |-> IF i = p.bin THEN p.exp ELSE -6]

\* main.rs:78  (norm / FFT_SIZE).log10() * 20.0 ; log10(0.0) is -inf
Decibels(m) == IF m.zero THEN NegInf ELSE Fin(20 * m.exp, 1)

\* main.rs:79  (magnitude - MIN_DB) / (MAX_DB - MIN_DB)
Normalise(db) == FDivInt(FAdd(db, Fin(-MIN_DB, 1)), MAX_DB - MIN_DB)

\* main.rs:87  freq = i * SAMPLE_RATE / FFT_SIZE, compared with hz: the
\* products are below 2^24 near both thresholds, so f32 compares exactly
FreqBelow(i, hz) == i * SAMPLE_RATE < hz * TransformSize

\* variant of BandOfBin: the bin width taken by integer division
BandOfBinIntegerWidth(i) ==
    IF i * (SAMPLE_RATE \div TransformSize) < 250 THEN "bass"
    ELSE IF i * (SAMPLE_RATE \div TransformSize) < 2000 THEN "mid"
    ELSE "high"
\* main.rs:88-94: the band whose sum bin i is added to
BandOfBin(i) ==
    IF FreqBelow(i, 250) THEN "bass"
    ELSE IF FreqBelow(i, 2000) THEN "mid"
    ELSE "high"

\* main.rs:98-100: the divisors; FFT_SIZE as f32 / 2.0 - 2000.0 for high
BandDivisor(b) ==
    CASE b = "bass" -> 250
      [] b = "mid" -> 1750
      [] OTHER -> TransformSize \div 2 - 2000

\* main.rs:76, 82-84: the locals before the loops
AnalyzerStart(p) ==
    [stage |-> "spectrum",
     profile |-> p,
     i |-> 0,
     spectrum_data |-> [k \in 0..(NumBins - 1) |-> Fin(0, 1)],
     sum |-> [b \in Bands |-> Fin(0, 1)],
     members |-> [b \in Bands |-> {}],
     energy |-> [b \in Bands |-> Fin(0, 1)]]

threadVars == <<samples, pos, buffer, frame, wpc, wfield, pass, held, poisoned,
                shared, lastWrite, rpc, rfield, snap, trav>>

\* The window is all zero exactly when the buffer is empty (no sample of
\* SampleBuffers is zero).
AnalyzerInit ==
    /\ ThreadsInit
    /\ \E p \in Profiles :
          /\ an = AnalyzerStart(p)
          /\ Len0 = (IF p.kind = "silent" THEN 0 ELSE MaxLen)

\* main.rs:77-80: one iteration of the spectrum loop
SpectrumBin ==
    /\ an.stage = "spectrum"
    /\ an' = [an EXCEPT
                !.spectrum_data[an.i] =
                    Normalise(Decibels(Magnitude(an.profile, an.i))),
                !.i = IF an.i + 1 < NumBins THEN an.i + 1 ELSE 0,
                !.stage = IF an.i + 1 < NumBins THEN "spectrum" ELSE "bands"]
    /\ UNCHANGED threadVars

\* main.rs:86-95: one iteration of the band loop
BandBin ==
    /\ an.stage = "bands"
    /\ LET b == BandOfBin(an.i)
       IN an' = [an EXCEPT
                !.sum[b] = FAdd(@, an.spectrum_data[an.i]),
                !.members[b] = @ \cup {an.i},
                !.i = IF an.i + 1 < NumBins THEN an.i + 1 ELSE NumBins,
                !.stage = IF an.i + 1 < NumBins THEN "bands" ELSE "divide"]
    /\ UNCHANGED threadVars

\* main.rs:98-100: the values stored in bass, mid, high
BandEnergies ==
    /\ an.stage = "divide"
    /\ an' = [an EXCEPT
                !.energy = [b \in Bands |-> FDivInt(an.sum[b], BandDivisor(b))],
                !.stage = "done"]
    /\ UNCHANGED threadVars

AnalyzerNext ==
    \/ SpectrumBin
    \/ BandBin
    \/ BandEnergies

AnalyzerSpec == AnalyzerInit /\ [][AnalyzerNext]_vars

----------------------------------------------------------------------------
(* Properties of the shared fields *)

ReaderFields == {ReaderOrder[j] : j \in 1..Len(ReaderOrder)}

\* C1: each shared field is accessed by at most one thread at a time, no
\* thread ever holds more than one field guard, and the analysis thread holds
\* no guard while it fills the window, analyses, advances the cursor or sleeps
\* (it holds exactly the guard of the field it is writing, render exactly the
\* guard of the field it is reading).
GuardsAreExclusiveAndSingle ==
    /\ \A f \in Fields : Cardinality(held[f]) <= 1
    /\ \A t \in Threads : Cardinality(GuardsOf(t)) <= 1
    /\ wpc \in {"fill", "fft", "advance", "sleep"} => GuardsOf("analysis") = {}
    /\ wpc = "lock" => GuardsOf("analysis") = {}
    /\ wpc = "write" => GuardsOf("analysis") = {WriterOrder[wfield]}
    /\ rpc = "read" => GuardsOf("render") = {ReaderOrder[rfield]}
    /\ rpc # "read" => GuardsOf("render") = {}

\* C1 witness: both threads are inside a field access at once, on different
\* fields, and render then waits for the field the analysis thread is writing.
BothThreadsInsideAnAccess ==
    /\ held["mid"] = {"analysis"}
    /\ held["bass"] = {"render"}

\* C2: the frame is not published atomically. While a publish is under way
\* the fields already written hold the new frame and the fields not yet
\* written still hold the previous pass's values, so the shared state is a mix
\* of pass K and pass K+1 that a concurrent reader can copy; outside a publish
\* the four fields hold one frame.
PublishIsFieldByField ==
    IF wpc \in {"lock", "write"}
    THEN \A j \in 1..Len(WriterOrder) :
            IF j < wfield
            THEN shared[WriterOrder[j]] = frame
            ELSE /\ shared[WriterOrder[j]].pass <= frame.pass
                 /\ shared[WriterOrder[j]].pass >= frame.pass - 1
                 /\ frame.pass < MaxPass =>
                        shared[WriterOrder[j]].pass = frame.pass - 1
    ELSE wpc # "panicked" => \A f \in Fields : shared[f] = frame

\* C2 witness: a completed snapshot that pairs a value written by publish pass
\* K with a value written by publish pass K+1.
TornSnapshot ==
    /\ rpc = "draw"
    /\ \E f, g \in ReaderFields :
          /\ snap[f].pass >= 1
          /\ snap[g].pass = snap[f].pass + 1

PassesSeen == {snap[f].pass : f \in ReaderFields} \ {0}

\* C3 as claimed: the values of one snapshot come from at most two different
\* publish passes.
SnapshotFromAtMostTwoPasses ==
    rpc = "draw" => Cardinality(PassesSeen) <= 2

\* C3 amended: a snapshot can hold one pass per field it reads; what every
\* interleaving keeps is that a field read later in the snapshot is at most
\* one pass older than a field read earlier in it.
SnapshotLaterFieldAtMostOnePassOlder ==
    rpc \in {"draw", "idle"} =>
        \A i, j \in 1..Len(ReaderOrder) :
            i < j => snap[ReaderOrder[j]].pass >= snap[ReaderOrder[i]].pass - 1

\* C3 witness: a completed snapshot whose three fields come from three
\* different publish passes.
SnapshotFromThreePasses ==
    /\ rpc = "draw"
    /\ Cardinality(PassesSeen) = 3

\* C4: a read of a field returns the value of the last completed write to
\* that field, or the constructor's zero when no publish has written it yet,
\* and the pass a reader observes for one field never decreases.
ReadsReturnLatestWrite ==
    [][ /\ (rpc = "read" /\ rpc' # "read") =>
              LET f == ReaderOrder[rfield]
              IN /\ snap'[f] = lastWrite[f]
                 /\ lastWrite[f].pass = 0 => snap'[f] = InitialField
        /\ \A f \in ReaderFields : snap'[f].pass >= snap[f].pass ]_vars

\* C4 witness: render has just read bass as written by a publish pass while
\* mid, not yet written by any pass, still holds its initial zero.
ReadLatestWhileOtherStillZero ==
    /\ rpc = "lock"
    /\ rfield = 2
    /\ snap["bass"].pass >= 1
    /\ snap["bass"] = lastWrite["bass"]
    /\ lastWrite["mid"] = InitialField

\* The analysis thread is inside lock() on a Mutex whose guard is alive
WriterWaits == wpc = "lock" /\ ~CanLock(WriterOrder[wfield])
\* Render is inside lock() on a Mutex whose guard is alive
ReaderWaits == rpc = "lock" /\ ~CanLock(ReaderOrder[rfield])

\* C5: under fair scheduling every snapshot that has started completes and
\* every publish that has started completes; a thread that waits for a guard
\* waits for the other thread's access to that one field, which holds no
\* other guard and is about to release it; the two threads never wait for
\* each other.
SnapshotsAndPublishesComplete ==
    /\ [](rpc \in {"lock", "read"} => <>(rpc = "draw"))
    /\ [](wpc \in {"lock", "write"} => <>(wpc = "advance"))
    /\ [](WriterWaits =>
            /\ rpc = "read"
            /\ ReaderOrder[rfield] = WriterOrder[wfield]
            /\ GuardsOf("render") = {WriterOrder[wfield]})
    /\ [](ReaderWaits =>
            /\ wpc = "write"
            /\ WriterOrder[wfield] = ReaderOrder[rfield]
            /\ GuardsOf("analysis") = {ReaderOrder[rfield]})
    /\ [](~(WriterWaits /\ ReaderWaits))

\* C5 witness: render, having read bass, waits for mid while the analysis
\* thread is writing mid.
ReaderWaitsForWriter ==
    /\ ReaderWaits
    /\ rfield = 2
    /\ held["mid"] = {"analysis"}

----------------------------------------------------------------------------
(* Properties of the cursor and of the window *)

\* ceil(a / b) for b > 0
CeilDiv(a, b) == (a + b - 1) \div b

\* the step is the Advance step
AdvanceStep == wpc = "advance" /\ wpc' = "sleep"

\* C6: an advance moves the cursor to offset + hop and resets it to 0 exactly
\* when offset + hop >= buffer length; with a non-empty buffer the cursor is
\* inside the buffer whenever a pass starts, and it is always a multiple of
\* the hop.
CursorStaysInsideBuffer ==
    /\ [](Len0 > 0 => (0 <= pos /\ pos < Len0))
    /\ [](pos % Hop = 0)
    /\ [][AdvanceStep =>
            /\ (pos' = 0) <=> (pos + Hop >= Len0)
            /\ (pos + Hop < Len0) => (pos' = pos + Hop)]_vars

\* C6 witness: a pass starts right after a reset of the cursor in a buffer
\* longer than one hop.
PassStartsAfterReset ==
    /\ wpc = "fill"
    /\ Len0 > Hop
    /\ trav.wraps = 1
    /\ pos = 0

\* C7: with a non-empty buffer of length L, a traversal that starts at offset
\* 0 takes exactly ceil(L / hop) advances: the reset happens on the advance
\* numbered ceil(L / hop) and on no earlier one, it leaves the cursor at an
\* offset below the hop, and before it the cursor is at advances * hop; so
\* the analysed offsets repeat with period ceil(L / hop).
TraversalTakesCeilAdvances ==
    Len0 > 0 =>
        /\ trav.advances <= CeilDiv(Len0, Hop)
        /\ (trav.wraps = 1) <=> (trav.advances = CeilDiv(Len0, Hop))
        /\ trav.wraps = 1 => pos < Hop
        /\ pos = (trav.advances % CeilDiv(Len0, Hop)) * Hop

\* C7 witness: a traversal of several advances has just ended in a buffer
\* whose length is not a multiple of the hop.
TraversalEnded ==
    /\ trav.wraps = 1
    /\ trav.advances >= 2
    /\ Len0 % Hop # 0

WindowIsZeroPaddedView ==
    wpc = "fft" =>
        \A i \in 0..(FFT_SIZE - 1) :
            /\ buffer[i] = IF pos + i < Len0 THEN samples[pos + i + 1] ELSE 0
            /\ pos + i >= Len0 => buffer[i] \notin {samples[k] : k \in 1..Len0}
            /\ buffer[i] # TransformOutput(i)

\* C9 witness: on a later pass the window starts inside the buffer and runs
\* past its end.
LaterWindowRunsPastEnd ==
    /\ wpc = "fft"
    /\ pass >= 1
    /\ 0 < pos
    /\ pos < Len0
    /\ pos + FFT_SIZE > Len0

\* C10: the analysis loop never fails: no index outside 0..length-1 is read,
\* no Mutex is ever poisoned, the thread never ends in a panic, and under fair
\* scheduling it completes publish passes for ever; for every buffer length,
\* the empty buffer and lengths below the transform size included.
AnalysisLoopNeverFails ==
    /\ [](wpc # "panicked")
    /\ [](wpc = "fill" => ~FillPanics)
    /\ [](\A f \in Fields : ~poisoned[f])
    /\ []<>(wpc = "advance")
    /\ []<>(wpc = "fill")

\* C10 witness: with an empty buffer the loop has completed a pass and
\* started another one.
EmptyBufferKeepsLooping ==
    /\ Len0 = 0
    /\ pass >= 2
    /\ wpc = "advance"

----------------------------------------------------------------------------
(* The order of the steps of one iteration *)

\* the step of the analysis thread from (pc, field) to (pc', field')
WriterStepInOrder ==
    \/ wpc = "fill" /\ wpc' = "fft" /\ wfield' = wfield
    \/ wpc = "fft" /\ wpc' = "lock" /\ wfield' = 1
    \/ wpc = "lock" /\ wpc' = "write" /\ wfield' = wfield
    \/ /\ wpc = "write" /\ wfield < Len(WriterOrder)
       /\ wpc' = "lock" /\ wfield' = wfield + 1
    \/ /\ wpc = "write" /\ wfield = Len(WriterOrder)
       /\ wpc' = "advance" /\ wfield' = 0
    \/ wpc = "advance" /\ wpc' = "sleep" /\ wfield' = wfield
    \/ wpc = "sleep" /\ wpc' = "fill" /\ wfield' = wfield

\* C14: every iteration analyses the window at the current offset, writes
\* spectrum, bass, mid and high in that order, each once and each with the
\* frame of that analysis, then advances the cursor by the hop, then sleeps;
\* the cursor does not move between the analysis and the last write, and no
\* step of render changes the cursor, the frame or a shared field.
IterationStepsInOrder ==
    /\ [](wfield \in 1..Len(WriterOrder) <=> wpc \in {"lock", "write"})
    /\ [](wpc \in {"lock", "write", "advance"} => frame.pos = pos)
    /\ [](wpc \in {"advance", "sleep"} => \A f \in Fields : shared[f] = frame)
    /\ [][ /\ (wpc' # wpc \/ wfield' # wfield) => WriterStepInOrder
           /\ (wpc = "fft" /\ wpc' # wpc) => frame'.pos = pos
           /\ (wpc = "write" /\ wpc' # wpc) =>
                  shared' = [shared EXCEPT ![WriterOrder[wfield]] = frame]
           /\ ~(wpc = "write" /\ wpc' # wpc) => shared' = shared
           /\ ~(wpc = "fft" /\ wpc' # wpc) => frame' = frame
           /\ pos' # pos => (AdvanceStep /\ pos' \in {pos + Hop, 0})
           /\ rpc' # rpc =>
                  /\ pos' = pos /\ shared' = shared /\ frame' = frame
                  /\ wpc' = wpc /\ wfield' = wfield ]_vars

\* C14 witness: a later pass, analysed at an offset above 0, has written its
\* four fields and is about to advance the cursor.
LaterPassPublishedBeforeAdvance ==
    /\ wpc = "advance"
    /\ pass >= 2
    /\ pos > 0
    /\ \A f \in Fields : shared[f] = frame /\ shared[f].pos = pos

----------------------------------------------------------------------------
(* Properties of the per-bin loops *)

\* C11: every bin the band loop has passed is in exactly one band: bass when
\* i * sample_rate / N < 250, mid when it is in [250, 2000), high otherwise;
\* at N = 2048 and 44100 Hz these are the contiguous ranges 0..11, 12..92 and
\* 93..1023, and a bin not yet passed is in no band.
BinsPartitionIntoBands ==
    an.stage \in {"bands", "divide", "done"} =>
        /\ \A i \in 0..(NumBins - 1) :
              /\ Cardinality({b \in Bands : i \in an.members[b]})
                    = (IF i < an.i THEN 1 ELSE 0)
              /\ i \in an.members["bass"] =>
                    i * SAMPLE_RATE < 250 * TransformSize
              /\ i \in an.members["mid"] =>
                    /\ i * SAMPLE_RATE >= 250 * TransformSize
                    /\ i * SAMPLE_RATE < 2000 * TransformSize
              /\ i \in an.members["high"] =>
                    i * SAMPLE_RATE >= 2000 * TransformSize
        /\ an.members["bass"] = {i \in 0..(an.i - 1) : i <= 11}
        /\ an.members["mid"] = {i \in 0..(an.i - 1) : 12 <= i /\ i <= 92}
        /\ an.members["high"] = {i \in 0..(an.i - 1) : 93 <= i}

\* C11 witness: the band loop has passed all 1024 bins.
AllBinsAssigned ==
    /\ an.stage = "done"
    /\ an.members["bass"] = 0..11
    /\ an.members["mid"] = 12..92
    /\ an.members["high"] = 93..1023

\* C12 as claimed: each band's energy is its sum divided by the band's width
\* in Hz, 250 for bass, 1750 for mid and sample_rate / 2 - 2000 for high; the
\* high divisor is positive, so the published high energy has the sign of
\* the high sum.
BandDivisorsAreBandWidths ==
    an.stage = "done" =>
        /\ an.energy["bass"] = FDivInt(an.sum["bass"], 250)
        /\ an.energy["mid"] = FDivInt(an.sum["mid"], 1750)
        /\ an.energy["high"] =
               FDivInt(an.sum["high"], SAMPLE_RATE \div 2 - 2000)
        /\ Sign(an.energy["high"]) = Sign(an.sum["high"])

\* main.rs:79 at the floor: the normalised value of MIN_DB
FloorValue == Normalise(Fin(MIN_DB, 1))

\* C13 as claimed: for an all-zero window every spectrum value is the
\* normalised floor 0.0, never an infinity or NaN, and the band sums and
\* energies derived from it are finite.
SilentWindowGivesFloor ==
    an.profile.kind = "silent" =>
        /\ IsZero(FloorValue)
        /\ \A i \in 0..(NumBins - 1) :
              /\ IsFinite(an.spectrum_data[i])
              /\ FEq(an.spectrum_data[i], FloorValue)
        /\ \A b \in Bands : IsFinite(an.sum[b]) /\ IsFinite(an.energy[b])

====
